---- MODULE Spec2Model ----
(***************************************************************************)
(* Model of src/app/page.tsx: the PhysicsPlatform host component (view     *)
(* router, login, question repository, import) and the TakingQuizView      *)
(* session controller.                                                     *)
(*                                                                         *)
(* One action is one UI event together with the re-render it causes.       *)
(* JavaScript values are modelled as follows: an object is the record of   *)
(* its properties; a value that is no object carries the reserved field    *)
(* jstype (null is NULL, a number is JsNumber(n), an array met inside a    *)
(* JSON document is JsArray(items)); a string that the code inspects (the  *)
(* e-mail, the JSON text) is a sequence of characters or lexemes.  The     *)
(* view a page change unmounts is taken to be gone at once: the exit       *)
(* transition of AnimatePresence is not modelled.                          *)
(***************************************************************************)
EXTENDS Integers, Sequences, FiniteSets, TLC

VARIABLES
    page,            \* useState<Page>('auth')
    user,            \* useState<User | null>(null)
    questions,       \* useState<Question[]>(initialQuestions)
    allUsers,        \* useState(initialUsers)
    currentQuiz,     \* useState<any | null>(null)
    selectedOption,  \* TakingQuizView: useState<number | null>(null)
    showFeedback,    \* TakingQuizView: useState(false)
    now,             \* milliseconds elapsed on the clock Date.now() reads
    toasts,          \* the notifications the last event emitted
    confettiFired,   \* calls of onComplete (fireConfetti) for the current session
    crashed,         \* a render threw and React unmounted the tree
    lastEvent        \* the UI event handled last

vars == <<page, user, questions, allUsers, currentQuiz, selectedOption, showFeedback,
          now, toasts, confettiFired, crashed, lastEvent>>

-----------------------------------------------------------------------------
(* Bounds of the model *)

MaxTicks == 1
MaxNumQuestions == 4
MaxRepo == 4
LoadTime == 1000
MaxConfetti == 1

-----------------------------------------------------------------------------
(* Values *)

NULL == [jstype |-> "null"]

JsNumber(n) == [jstype |-> "number", value |-> n]

JsArray(items) == [jstype |-> "array", items |-> items]

\* {} : the object without properties
EmptyObject == [f \in {} |-> 0]

\* Array.isArray
isArray(v) == "jstype" \in DOMAIN v /\ v.jstype = "array"

\* q.id, as the sequence holding it, or << >> when it is undefined
IdOf(q) == IF "jstype" \notin DOMAIN q /\ "id" \in DOMAIN q THEN << q.id >> ELSE << >>

NoSelection == -1

initialQuestions ==
    << [id |-> 1, topic |-> "Mechanics", subtopic |-> "Kinematics",
        difficulty |-> "easy",
        options |-> <<"Final velocity", "Displacement", "Velocity squared", "Acceleration">>,
        correctAnswerIndex |-> 0],
       [id |-> 2, topic |-> "Mechanics", subtopic |-> "Dynamics",
        difficulty |-> "medium",
        options |-> <<"10 N", "7 N", "2.5 N", "0 N">>,
        correctAnswerIndex |-> 0],
       [id |-> 3, topic |-> "Electromagnetism", subtopic |-> "Circuits",
        difficulty |-> "easy",
        options |-> <<"20 V", "5 V", "12 V", "8 V">>,
        correctAnswerIndex |-> 0] >>

\* initialUsers; a subscriptionEndDate of null is NULL
initialUsers ==
    << [id |-> 101, name |-> "Alice", role |-> "USER",
        subscriptionStatus |-> "ACTIVE", subscriptionEndDate |-> "2024-12-31"],
       [id |-> 102, name |-> "Bob", role |-> "USER",
        subscriptionStatus |-> "FREE", subscriptionEndDate |-> NULL],
       [id |-> 103, name |-> "Charlie", role |-> "USER",
        subscriptionStatus |-> "EXPIRED", subscriptionEndDate |-> "2024-01-15"] >>

Pages == {"auth", "dashboard", "quiz-setup", "taking-quiz", "quiz-results",
          "leaderboard", "bookmarks", "admin-questions", "admin-motivation",
          "admin-users", "playground", "about"}

navItems == <<"dashboard", "quiz-setup", "leaderboard", "bookmarks", "playground", "about">>

adminNavItems == <<"admin-questions", "admin-motivation", "admin-users">>

Range(s) == {s[i] : i \in DOMAIN s}

-----------------------------------------------------------------------------
(* String.prototype.toLowerCase and String.prototype.includes on the       *)
(* e-mail, a sequence of characters.                                       *)

LowerChar(c) ==
    CASE c = "A" -> "a"
      [] c = "D" -> "d"
      [] c = "M" -> "m"
      [] c = "I" -> "i"
      [] c = "N" -> "n"
      [] c = "B" -> "b"
      [] c = "O" -> "o"
      [] OTHER -> c

toLowerCase(s) == [i \in 1..Len(s) |-> LowerChar(s[i])]

includes(s, sub) ==
    \E i \in 0..(Len(s) - Len(sub)) : SubSeq(s, i + 1, i + Len(sub)) = sub

\* mutant: the e-mail is searched as typed
RoleOfCaseSensitive(email) ==
    IF includes(email, <<"a", "d", "m", "i", "n">>) THEN "ADMIN" ELSE "USER"

RoleOf(email) ==
    IF includes(toLowerCase(email), <<"a", "d", "m", "i", "n">>) THEN "ADMIN" ELSE "USER"

Emails ==
    { <<"a", "d", "m", "i", "n">>,
      <<"b", "o", "b", "@", "A", "D", "M", "I", "N">>,
      <<"A", "d", "m", "I", "n", "@", "b">>,
      <<"b", "o", "b">>,
      <<"a", "d", "m", "@", "i", "n">>,
      <<"n", "i", "m", "d", "a">>,
      << >> }

-----------------------------------------------------------------------------
(* Array.prototype.slice(start, end) *)

Max(a, b) == IF a > b THEN a ELSE b

Min(a, b) == IF a < b THEN a ELSE b

RelIndex(k, len) == IF k < 0 THEN Max(len + k, 0) ELSE Min(k, len)

\* mutant: a negative end is taken as 0 instead of counting from the end
sliceNegativeAsZero(s, start, end) == SubSeq(s, Max(start, 0) + 1, Min(Max(end, 0), Len(s)))

slice(s, start, end) == SubSeq(s, RelIndex(start, Len(s)) + 1, RelIndex(end, Len(s)))

-----------------------------------------------------------------------------
(* Rendering *)

\* mutant: a missing session sends the quiz view to the dashboard
renderPageRedirectsToDashboard(p, quiz) ==
    CASE p = "dashboard" -> p
      [] p = "quiz-setup" -> p
      [] p = "taking-quiz" -> IF quiz = NULL THEN "dashboard" ELSE p
      [] p = "admin-questions" -> p
      [] p = "admin-users" -> p
      [] p = "playground" -> p
      [] p = "about" -> p
      [] OTHER -> "dashboard"

\* renderPage: the page the router settles on (a setPage during render
\* re-renders before anything is committed)
renderPage(p, quiz) ==
    CASE p = "dashboard" -> p
      [] p = "quiz-setup" -> p
      [] p = "taking-quiz" -> IF quiz = NULL THEN "quiz-setup" ELSE p
      [] p = "admin-questions" -> p
      [] p = "admin-users" -> p
      [] p = "playground" -> p
      [] p = "about" -> p
      [] OTHER -> "dashboard"

\* the page shown once the component has rendered with user u
Settle(p, u, quiz) == IF u = NULL THEN p ELSE renderPage(p, quiz)

\* TakingQuizView is mounted
QuizMounted(p, u) == u # NULL /\ p = "taking-quiz"

\* quiz.questions[quiz.currentIndex] is undefined, so reading
\* currentQuestion.questionText throws during render
QuizRenderThrows(p, u, quiz) ==
    /\ QuizMounted(p, u)
    /\ quiz # NULL
    /\ (quiz.currentIndex + 1) \notin DOMAIN quiz.questions

\* questions.map(q => ... q.id ...) throws on a null element
AdminRenderThrows(p, u, qs) ==
    /\ u # NULL
    /\ p = "admin-questions"
    /\ \E i \in DOMAIN qs : qs[i] = NULL

RenderThrows(p, u, quiz, qs) == QuizRenderThrows(p, u, quiz) \/ AdminRenderThrows(p, u, qs)

\* the current question of the mounted quiz view
currentQuestion == currentQuiz.questions[currentQuiz.currentIndex + 1]

-----------------------------------------------------------------------------
Init ==
    /\ page = "auth"
    /\ user = NULL
    /\ questions = initialQuestions
    /\ currentQuiz = NULL
    /\ selectedOption = NoSelection
    /\ showFeedback = FALSE
    /\ now = 0
    /\ toasts = << >>
    /\ confettiFired = 0
    /\ allUsers = initialUsers
    /\ crashed = FALSE
    /\ lastEvent = [op |-> "load"]

\* What every host-level event does after its handler: re-render, which
\* settles the page, unmounts the quiz view when the page left it (its
\* local state is lost) and may throw.
Rerender(p, u, quiz, qs) ==
    /\ page' = Settle(p, u, quiz)
    /\ crashed' = RenderThrows(Settle(p, u, quiz), u, quiz, qs)

ResetQuizView ==
    /\ selectedOption' = NoSelection
    /\ showFeedback' = FALSE

-----------------------------------------------------------------------------
(* Authentication *)

handleLogin(email) ==
    /\ ~crashed
    /\ user = NULL
    /\ LET role == RoleOf(email)
           newUser == [name |-> IF role = "ADMIN" THEN "Admin User" ELSE "Demo Student",
                       email |-> email,
                       role |-> role,
                       subscriptionStatus |-> "ACTIVE",
                       stats |-> [totalAttempted |-> 50, totalCorrect |-> 35,
                                  currentStreak |-> 5]]
       IN /\ user' = newUser
          /\ Rerender("dashboard", newUser, currentQuiz, questions)
          /\ toasts' = << [kind |-> "success", msg |-> "Welcome", name |-> newUser.name] >>
    /\ ResetQuizView
    /\ lastEvent' = [op |-> "login", arg |-> email]
    /\ UNCHANGED <<questions, currentQuiz, now, confettiFired, allUsers>>

handleLogout ==
    /\ ~crashed
    /\ user # NULL
    /\ user' = NULL
    /\ Rerender("auth", NULL, currentQuiz, questions)
    /\ ResetQuizView
    /\ toasts' = << [kind |-> "blank", msg |-> "You have been logged out."] >>
    /\ lastEvent' = [op |-> "logout"]
    /\ UNCHANGED <<questions, currentQuiz, now, confettiFired, allUsers>>

\* mutant: the sidebar shows the admin items to every user
NavigateWithoutRoleCheck(p) ==
    /\ ~crashed
    /\ user # NULL
    /\ p \in Range(navItems) \cup Range(adminNavItems)
    /\ Rerender(p, user, currentQuiz, questions)
    /\ ResetQuizView
    /\ toasts' = << >>
    /\ lastEvent' = [op |-> "navigate", arg |-> p]
    /\ UNCHANGED <<user, questions, currentQuiz, now, confettiFired, allUsers>>

\* Sidebar: a click on a navigation button (none of them leads to the
\* quiz view, so a mounted quiz view is unmounted)
Navigate(p) ==
    /\ ~crashed
    /\ user # NULL
    /\ \/ p \in Range(navItems)
       \/ user.role = "ADMIN" /\ p \in Range(adminNavItems)
    /\ Rerender(p, user, currentQuiz, questions)
    /\ ResetQuizView
    /\ toasts' = << >>
    /\ lastEvent' = [op |-> "navigate", arg |-> p]
    /\ UNCHANGED <<user, questions, currentQuiz, now, confettiFired, allUsers>>

-----------------------------------------------------------------------------
(* Quiz session *)

\* the configurations startQuiz is given: QuizSetupView passes
\* { numQuestions: 3, mode: 'practice' }; config is typed any
NumQuestionsInputs == (-MaxNumQuestions)..MaxNumQuestions

Modes == {"practice", "exam"}

startQuiz(numQuestions, mode) ==
    /\ ~crashed
    /\ user # NULL
    /\ page = "quiz-setup"
    /\ \E t \in now..MaxTicks :
         LET selectedQuestions == slice(initialQuestions, 0, numQuestions)
             quiz == [questions |-> selectedQuestions,
                      answers |-> << >>,
                      currentIndex |-> 0,
                      startTime |-> LoadTime + t,
                      mode |-> mode]
         IN /\ now' = t
            /\ currentQuiz' = quiz
            /\ Rerender("taking-quiz", user, quiz, questions)
    /\ ResetQuizView
    /\ confettiFired' = 0
    /\ toasts' = << >>
    /\ lastEvent' = [op |-> "start", arg |-> numQuestions]
    /\ UNCHANGED <<user, questions, allUsers>>

\* mutant: no early return while feedback shows
handleAnswerUnguarded(index) ==
    /\ ~crashed
    /\ QuizMounted(page, user)
    /\ index \in 0..(Len(currentQuestion.options) - 1)
    /\ selectedOption' = index
    /\ showFeedback' = TRUE
    /\ toasts' = IF index = currentQuestion.correctAnswerIndex
                 THEN << [kind |-> "success", msg |-> "Correct!"] >>
                 ELSE << [kind |-> "error", msg |-> "Incorrect!"] >>
    /\ lastEvent' = [op |-> "select", arg |-> index]
    /\ UNCHANGED <<page, user, questions, currentQuiz, now, confettiFired, crashed, allUsers>>

\* mutant: the two notifications are swapped
handleAnswerSwappedToasts(index) ==
    /\ ~crashed
    /\ QuizMounted(page, user)
    /\ index \in 0..(Len(currentQuestion.options) - 1)
    /\ IF showFeedback
       THEN /\ toasts' = << >>
            /\ UNCHANGED <<selectedOption, showFeedback>>
       ELSE /\ selectedOption' = index
            /\ showFeedback' = TRUE
            /\ toasts' = IF index = currentQuestion.correctAnswerIndex
                         THEN << [kind |-> "error", msg |-> "Incorrect!"] >>
                         ELSE << [kind |-> "success", msg |-> "Correct!"] >>
    /\ lastEvent' = [op |-> "select", arg |-> index]
    /\ UNCHANGED <<page, user, questions, currentQuiz, now, confettiFired, crashed, allUsers>>

\* a click on the option button with this index
handleAnswer(index) ==
    /\ ~crashed
    /\ QuizMounted(page, user)
    /\ index \in 0..(Len(currentQuestion.options) - 1)
    /\ IF showFeedback
       THEN /\ toasts' = << >>
            /\ UNCHANGED <<selectedOption, showFeedback>>
       ELSE /\ selectedOption' = index
            /\ showFeedback' = TRUE
            /\ toasts' = IF index = currentQuestion.correctAnswerIndex
                         THEN << [kind |-> "success", msg |-> "Correct!"] >>
                         ELSE << [kind |-> "error", msg |-> "Incorrect!"] >>
    /\ lastEvent' = [op |-> "select", arg |-> index]
    /\ UNCHANGED <<page, user, questions, currentQuiz, now, confettiFired, crashed, allUsers>>

\* mutant: the last question is taken to be reached one question early
HasNextQuestionOffByOne(quiz) == quiz.currentIndex < Len(quiz.questions) - 2

\* quiz.currentIndex < quiz.questions.length - 1
HasNextQuestion(quiz) == quiz.currentIndex < Len(quiz.questions) - 1

\* mutant: the selection is not cleared when the next question comes up
handleNextKeepsSelection ==
    IF HasNextQuestion(currentQuiz)
    THEN LET quiz == [currentQuiz EXCEPT !.currentIndex = currentQuiz.currentIndex + 1]
         IN /\ currentQuiz' = quiz
            /\ Rerender(page, user, quiz, questions)
            /\ showFeedback' = FALSE
            /\ UNCHANGED <<selectedOption, confettiFired>>
    ELSE /\ confettiFired' = confettiFired + 1
         /\ Rerender("dashboard", user, currentQuiz, questions)
         /\ ResetQuizView
         /\ UNCHANGED currentQuiz

handleNext ==
    IF HasNextQuestion(currentQuiz)
    THEN LET quiz == [currentQuiz EXCEPT !.currentIndex = currentQuiz.currentIndex + 1]
         IN /\ currentQuiz' = quiz
            /\ Rerender(page, user, quiz, questions)
            /\ ResetQuizView
            /\ UNCHANGED confettiFired
    ELSE /\ confettiFired' = confettiFired + 1
         /\ Rerender("dashboard", user, currentQuiz, questions)
         /\ ResetQuizView
         /\ UNCHANGED currentQuiz

\* mutant: the Next button is never disabled
ClickNextAlwaysEnabled ==
    /\ ~crashed
    /\ QuizMounted(page, user)
    /\ handleNext
    /\ toasts' = << >>
    /\ lastEvent' = [op |-> "advance"]
    /\ UNCHANGED <<user, questions, now, allUsers>>

\* a click on the Next button, which is disabled while no feedback shows
ClickNext ==
    /\ ~crashed
    /\ QuizMounted(page, user)
    /\ IF ~showFeedback
       THEN UNCHANGED <<page, currentQuiz, selectedOption, showFeedback,
                        confettiFired, crashed>>
       ELSE handleNext
    /\ toasts' = << >>
    /\ lastEvent' = [op |-> "advance"]
    /\ UNCHANGED <<user, questions, now, allUsers>>

-----------------------------------------------------------------------------
(* JSON.parse.  The text is a sequence of lexemes; an object literal is    *)
(* one lexeme.                                                             *)

ObjectLexemes == {"{}", "{\"topic\":\"Optics\"}", "{\"id\":1,\"topic\":\"Optics\"}"}

ScalarLexemes == {"null", "7"}

LexemeValue(lx) ==
    CASE lx = "{}" -> EmptyObject
      [] lx = "{\"topic\":\"Optics\"}" -> [topic |-> "Optics"]
      [] lx = "{\"id\":1,\"topic\":\"Optics\"}" -> [id |-> 1, topic |-> "Optics"]
      [] lx = "null" -> NULL
      [] lx = "7" -> JsNumber(7)

ParseFail == [ok |-> FALSE]

RECURSIVE ParseValue(_, _), ParseElements(_, _, _)

\* the value that starts at lexeme i, and the position after it
ParseValue(text, i) ==
    IF i > Len(text) THEN ParseFail
    ELSE IF text[i] = "["
         THEN IF i + 1 <= Len(text) /\ text[i + 1] = "]"
              THEN [ok |-> TRUE, next |-> i + 2, value |-> JsArray(<< >>)]
              ELSE ParseElements(text, i + 1, << >>)
    ELSE IF text[i] \in ObjectLexemes \cup ScalarLexemes
         THEN [ok |-> TRUE, next |-> i + 1, value |-> LexemeValue(text[i])]
    ELSE ParseFail

\* the elements of an array from lexeme i on, after the elements acc
ParseElements(text, i, acc) ==
    LET v == ParseValue(text, i)
    IN IF ~v.ok \/ v.next > Len(text) THEN ParseFail
       ELSE IF text[v.next] = ","
            THEN ParseElements(text, v.next + 1, Append(acc, v.value))
       ELSE IF text[v.next] = "]"
            THEN [ok |-> TRUE, next |-> v.next + 1, value |-> JsArray(Append(acc, v.value))]
       ELSE ParseFail

\* JSON.parse(text): ok = FALSE stands for the SyntaxError it throws
JSONparse(text) ==
    LET v == ParseValue(text, 1)
    IN IF v.ok /\ v.next = Len(text) + 1 THEN [ok |-> TRUE, value |-> v.value] ELSE ParseFail

\* the texts pasted into the import box
JsonInputs ==
    { << >>,
      << "{}" >>,
      << "7" >>,
      << "[", "{\"topic\":\"Optics\"}" >>,
      << "[", "]" >>,
      << "[", "{\"topic\":\"Optics\"}", "]" >>,
      << "[", "{\"id\":1,\"topic\":\"Optics\"}", ",", "{\"topic\":\"Optics\"}", "]" >>,
      << "[", "null", "]" >> }

-----------------------------------------------------------------------------
(* Question repository (AdminQuestionsView) *)

AdminQuestionsMounted == ~crashed /\ user # NULL /\ page = "admin-questions"

\* the questions handed to addQuestion: Omit<Question, 'id'>
NewQuestions == { [topic |-> "Waves", correctAnswerIndex |-> 1] }

\* { ...question, id }
WithId(question, id) ==
    [f \in DOMAIN question \cup {"id"} |-> IF f = "id" THEN id ELSE question[f]]

addQuestion(question) ==
    /\ AdminQuestionsMounted
    /\ Len(questions) + 1 <= MaxRepo
    /\ \E t \in now..MaxTicks :
         /\ now' = t
         /\ questions' = Append(questions, WithId(question, LoadTime + t))
    /\ Rerender(page, user, currentQuiz, questions')
    /\ toasts' = << [kind |-> "success", msg |-> "Question added successfully!"] >>
    /\ lastEvent' = [op |-> "add", arg |-> question]
    /\ UNCHANGED <<user, currentQuiz, selectedOption, showFeedback, confettiFired, allUsers>>

\* prev.filter(q => q.id !== id)
WithoutId(qs, id) == SelectSeq(qs, LAMBDA q : IdOf(q) # id)

\* a click on the delete button of row k: deleteQuestion(q.id)
deleteQuestion(k) ==
    /\ AdminQuestionsMounted
    /\ k \in DOMAIN questions
    /\ questions' = WithoutId(questions, IdOf(questions[k]))
    /\ Rerender(page, user, currentQuiz, questions')
    /\ toasts' = << [kind |-> "error", msg |-> "Question deleted!"] >>
    /\ lastEvent' = [op |-> "delete", arg |-> k]
    /\ UNCHANGED <<user, currentQuiz, selectedOption, showFeedback, now, confettiFired, allUsers>>

\* mutant: no Array.isArray check, a single value is taken as one item
ImportResultUnchecked(qs, jsonString) ==
    LET parsed == JSONparse(jsonString)
        items == IF ~parsed.ok THEN << >>
                 ELSE IF isArray(parsed.value) THEN parsed.value.items
                 ELSE << parsed.value >>
    IN IF parsed.ok
       THEN [questions |-> qs \o items,
             toast |-> [kind |-> "success", msg |-> "questions imported successfully!",
                        count |-> Len(items)]]
       ELSE [questions |-> qs,
             toast |-> [kind |-> "error", msg |-> "Invalid JSON format. Please check the file."]]

\* mutant: the imported items are put in front of the repository
ImportResultPrepended(qs, jsonString) ==
    LET parsed == JSONparse(jsonString)
    IN IF parsed.ok /\ isArray(parsed.value)
       THEN [questions |-> parsed.value.items \o qs,
             toast |-> [kind |-> "success", msg |-> "questions imported successfully!",
                        count |-> Len(parsed.value.items)]]
       ELSE [questions |-> qs,
             toast |-> [kind |-> "error", msg |-> "Invalid JSON format. Please check the file."]]

\* what handleJsonImport makes of the text: the repository and the toast
ImportResult(qs, jsonString) ==
    LET parsed == JSONparse(jsonString)
    IN IF parsed.ok /\ isArray(parsed.value)
       THEN [questions |-> qs \o parsed.value.items,
             toast |-> [kind |-> "success", msg |-> "questions imported successfully!",
                        count |-> Len(parsed.value.items)]]
       ELSE [questions |-> qs,
             toast |-> [kind |-> "error", msg |-> "Invalid JSON format. Please check the file."]]

handleJsonImport(jsonString) ==
    /\ AdminQuestionsMounted
    /\ LET r == ImportResult(questions, jsonString)
       IN /\ Len(r.questions) <= MaxRepo
          /\ questions' = r.questions
          /\ toasts' = << r.toast >>
    /\ Rerender(page, user, currentQuiz, questions')
    /\ lastEvent' = [op |-> "import", arg |-> jsonString]
    /\ UNCHANGED <<user, currentQuiz, selectedOption, showFeedback, now, confettiFired, allUsers>>

-----------------------------------------------------------------------------
(* User management (AdminUsersView) *)

AdminUsersMounted == ~crashed /\ user # NULL /\ page = "admin-users"

\* the options of the status select
SubscriptionStatuses == {"FREE", "ACTIVE", "EXPIRED"}

\* the values the date input hands over
EndDates == {"2025-06-30"}

\* the rows whose controls are operated
UserRows == {2}

updateUserSubscription(userId, status, date) ==
    /\ AdminUsersMounted
    /\ allUsers' = [i \in DOMAIN allUsers |->
                      IF allUsers[i].id = userId
                      THEN [allUsers[i] EXCEPT !.subscriptionStatus = status,
                                               !.subscriptionEndDate = date]
                      ELSE allUsers[i]]
    /\ Rerender(page, user, currentQuiz, questions)
    /\ toasts' = << [kind |-> "success", msg |-> "Updated subscription for user", id |-> userId] >>
    /\ lastEvent' = [op |-> "subscription", arg |-> userId]
    /\ UNCHANGED <<user, questions, currentQuiz, selectedOption, showFeedback, now, confettiFired>>

\* a change of the status select of row k
ChangeStatus(k, status) ==
    /\ k \in DOMAIN allUsers
    /\ updateUserSubscription(allUsers[k].id, status, allUsers[k].subscriptionEndDate)

\* a change of the date input of row k
ChangeEndDate(k, date) ==
    /\ k \in DOMAIN allUsers
    /\ updateUserSubscription(allUsers[k].id, allUsers[k].subscriptionStatus, date)

-----------------------------------------------------------------------------
Next ==
    \/ \E email \in Emails : handleLogin(email)
    \/ handleLogout
    \/ \E p \in Pages : Navigate(p)
    \/ \E n \in NumQuestionsInputs, mode \in Modes : startQuiz(n, mode)
    \/ \E index \in 0..3 : handleAnswer(index)
    \/ ClickNext

Spec == Init /\ [][Next]_vars

\* The host with the question repository's operations; quizzes are started
\* as QuizSetupView starts them.
NextAdmin ==
    \/ \E email \in {<<"a", "d", "m", "i", "n">>, <<"b", "o", "b">>} : handleLogin(email)
    \/ handleLogout
    \/ \E p \in Pages : Navigate(p)
    \/ startQuiz(3, "practice")
    \/ \E question \in NewQuestions : addQuestion(question)
    \/ \E k \in 1..MaxRepo : deleteQuestion(k)
    \/ \E jsonString \in JsonInputs : handleJsonImport(jsonString)

SpecAdmin == Init /\ [][NextAdmin]_vars

\* Every event of the interface: the quiz flow and the admin views together.
NextUI ==
    \/ \E email \in {<<"a", "d", "m", "i", "n">>, <<"b", "o", "b">>} : handleLogin(email)
    \/ handleLogout
    \/ \E p \in Pages : Navigate(p)
    \/ startQuiz(3, "practice")
    \/ \E index \in 0..1 : handleAnswer(index)
    \/ ClickNext
    \/ \E question \in NewQuestions : addQuestion(question)
    \/ \E k \in 1..MaxRepo : deleteQuestion(k)
    \/ \E jsonString \in {<< "{}" >>} : handleJsonImport(jsonString)
    \/ \E k \in UserRows, status \in SubscriptionStatuses : ChangeStatus(k, status)
    \/ \E k \in UserRows, date \in EndDates : ChangeEndDate(k, date)

SpecUI == Init /\ [][NextUI]_vars

\* setPage, the setter the host hands to its views, called with any Page
\* (a navigation that does not go through the sidebar).  The view is
\* remounted when the page shown changes.
setPage(p) ==
    /\ ~crashed
    /\ user # NULL
    /\ Rerender(p, user, currentQuiz, questions)
    /\ IF Settle(p, user, currentQuiz) = page
       THEN UNCHANGED <<selectedOption, showFeedback>>
       ELSE ResetQuizView
    /\ toasts' = << >>
    /\ lastEvent' = [op |-> "setPage", arg |-> p]
    /\ UNCHANGED <<user, questions, currentQuiz, now, confettiFired, allUsers>>

\* The quiz flow with direct navigation in place of the sidebar.  A direct
\* navigation can return to a finished session and finish it again, so the
\* count of celebrations is capped.
NextRouter ==
    \/ \E email \in Emails : handleLogin(email)
    \/ handleLogout
    \/ \E p \in Pages : setPage(p)
    \/ \E n \in NumQuestionsInputs, mode \in Modes : startQuiz(n, mode)
    \/ \E index \in 0..3 : handleAnswer(index)
    \/ (confettiFired < MaxConfetti /\ ClickNext)

SpecRouter == Init /\ [][NextRouter]_vars

-----------------------------------------------------------------------------------------------------------------------------------------------------
(* DashboardView: the accuracy shown.  JavaScript numbers are IEEE 754      *)
(* doubles, so the quotient and the product are each rounded to 53         *)
(* significant bits, ties to even.  A double is [e, top, limbs]: the       *)
(* integer top * 2^52 + limbs (four limbs of 13 bits, most significant     *)
(* first) times 2^(-52 - e).                                               *)

Limb == 2^13

LimbCount == 4

RECURSIVE Exponent(_, _)
\* the least e with 2^e * c >= a  (c > 0)
Exponent(c, a) == IF c >= a THEN 0 ELSE 1 + Exponent(2 * c, a)

RECURSIVE DivLimbs(_, _, _)
\* the first n limbs of r / a after the binary point (r < a)
DivLimbs(r, a, n) ==
    IF n = 0 THEN << >>
    ELSE << (r * Limb) \div a >> \o DivLimbs((r * Limb) % a, a, n - 1)

RECURSIVE DivRest(_, _, _)
\* the remainder left after those n limbs
DivRest(r, a, n) == IF n = 0 THEN r ELSE DivRest((r * Limb) % a, a, n - 1)

RECURSIVE Carry(_, _, _)
\* limbs 1..k brought back below Limb, and the carry out of limb 1
Carry(limbs, k, c) ==
    IF k = 0 THEN [limbs |-> limbs, carry |-> c]
    ELSE Carry([limbs EXCEPT ![k] = (limbs[k] + c) % Limb], k - 1, (limbs[k] + c) \div Limb)

RECURSIVE BitLength(_)
BitLength(n) == IF n = 0 THEN 0 ELSE 1 + BitLength(n \div 2)

\* x plus units of the last limb
AddUnits(x, units) ==
    LET c == Carry([x.limbs EXCEPT ![LimbCount] = x.limbs[LimbCount] + units], LimbCount, 0)
    IN [e |-> x.e, top |-> x.top + c.carry, limbs |-> c.limbs]

\* correct / attempted as a double (0 <= correct <= attempted, attempted > 0):
\* 53 bits of the quotient, rounded by what the division leaves
Divide(correct, attempted) ==
    IF correct = 0 THEN [e |-> 0, top |-> 0, limbs |-> [i \in 1..LimbCount |-> 0]]
    ELSE LET e == Exponent(correct, attempted)
             scaled == (2^e) * correct
             r == scaled % attempted
             x == [e |-> e, top |-> scaled \div attempted,
                   limbs |-> DivLimbs(r, attempted, LimbCount)]
             rest == DivRest(r, attempted, LimbCount)
             up == \/ 2 * rest > attempted
                   \/ 2 * rest = attempted /\ x.limbs[LimbCount] % 2 = 1
         IN IF up THEN AddUnits(x, 1) ELSE x

\* x * 100 as a double: the exact product, rounded to 53 significant bits
Times100(x) ==
    LET c == Carry([i \in 1..LimbCount |-> x.limbs[i] * 100], LimbCount, 0)
        exact == [e |-> x.e, top |-> x.top * 100 + c.carry, limbs |-> c.limbs]
        drop == BitLength(exact.top) - 1
    IN IF drop <= 0 THEN exact
       ELSE LET last == exact.limbs[LimbCount]
                low == last % (2^drop)
                kept == [exact EXCEPT !.limbs[LimbCount] = last - low]
                up == \/ low > 2^(drop - 1)
                      \/ low = 2^(drop - 1) /\ (last \div (2^drop)) % 2 = 1
            IN IF up THEN AddUnits(kept, 2^drop) ELSE kept

\* Math.round: the nearest integer, a tie going up
MathRound(x) ==
    (x.top \div (2^x.e))
      + (IF x.e = 0 THEN x.limbs[1] \div (Limb \div 2) ELSE (x.top \div (2^(x.e - 1))) % 2)

\* Math.round((totalCorrect / totalAttempted) * 100), or 0
Accuracy(stats) ==
    IF stats.totalAttempted > 0
    THEN MathRound(Times100(Divide(stats.totalCorrect, stats.totalAttempted)))
    ELSE 0

\* the value of the "Accuracy %" card, << >> while DashboardView is not mounted
accuracy ==
    IF ~crashed /\ user # NULL /\ page = "dashboard" THEN << Accuracy(user.stats) >> ELSE << >>

MaxAttempted == 50

\* a logged-in user with any stats with correct <= attempted, on a view
\* other than the dashboard
InitAccuracy ==
    /\ page = "about"
    /\ \E attempted \in 0..MaxAttempted :
         \E correct \in 0..attempted :
            user = [name |-> "Demo Student",
                    email |-> <<"b", "o", "b">>,
                    role |-> "USER",
                    subscriptionStatus |-> "ACTIVE",
                    stats |-> [totalAttempted |-> attempted, totalCorrect |-> correct,
                               currentStreak |-> 5]]
    /\ questions = initialQuestions
    /\ currentQuiz = NULL
    /\ selectedOption = NoSelection
    /\ showFeedback = FALSE
    /\ now = 0
    /\ toasts = << >>
    /\ confettiFired = 0
    /\ allUsers = initialUsers
    /\ crashed = FALSE
    /\ lastEvent = [op |-> "load"]

NextAccuracy ==
    \/ \E p \in Pages : Navigate(p)
    \/ handleLogout
    \/ \E email \in {<<"b", "o", "b">>} : handleLogin(email)

SpecAccuracy == InitAccuracy /\ [][NextAccuracy]_vars

-----------------------------------------------------------------------------
(* Properties of the quiz session (checked under Spec)                     *)

\* the session is showing feedback for its last question
AtLastFeedback ==
    /\ page = "taking-quiz"
    /\ showFeedback
    /\ currentQuiz.currentIndex = Len(currentQuiz.questions) - 1

C2_IndexInRange ==
    currentQuiz # NULL =>
        /\ 0 <= currentQuiz.currentIndex
        /\ currentQuiz.currentIndex < Len(currentQuiz.questions)

\* C3: a select issued while feedback already shows changes neither the
\* selected option, the feedback flag, the session nor the view, and emits
\* no notification.
C3_SelectInFeedbackNoOp ==
    [][ (lastEvent'.op = "select" /\ showFeedback) =>
            /\ selectedOption' = selectedOption
            /\ showFeedback' = showFeedback
            /\ currentQuiz' = currentQuiz
            /\ page' = page
            /\ confettiFired' = confettiFired
            /\ toasts' = << >>
      ]_vars

C3_Witness ==
    /\ lastEvent.op = "select"
    /\ page = "taking-quiz"
    /\ showFeedback
    /\ selectedOption = 0
    /\ lastEvent.arg = 2

\* C4: an advance issued while no option is selected (no feedback shows)
\* changes neither the index nor the selection and feedback flags, fires no
\* completion and leaves the view as it is.
C4_AdvanceRejectedWhileAwaiting ==
    [][ (lastEvent'.op = "advance" /\ ~showFeedback) =>
            /\ currentQuiz' = currentQuiz
            /\ selectedOption' = selectedOption
            /\ showFeedback' = showFeedback
            /\ confettiFired' = confettiFired
            /\ page' = page
            /\ crashed' = crashed
      ]_vars

\* index 0 is never the result of an advance that was carried out
C4_Witness ==
    /\ lastEvent.op = "advance"
    /\ page = "taking-quiz"
    /\ ~showFeedback
    /\ selectedOption = NoSelection
    /\ currentQuiz.currentIndex = 0
    /\ confettiFired = 0

ContainsAdminAnyCase(email) ==
    \E i \in 1..(Len(email) - 4) :
        /\ email[i] \in {"a", "A"}
        /\ email[i + 1] \in {"d", "D"}
        /\ email[i + 2] \in {"m", "M"}
        /\ email[i + 3] \in {"i", "I"}
        /\ email[i + 4] \in {"n", "N"}

\* C10: after a login the user exists with the e-mail given, the role is
\* ADMIN if the e-mail contains "admin" in any mix of cases and USER
\* otherwise, and the active view is the dashboard.
C10_LoginRole ==
    lastEvent.op = "login" =>
        /\ user # NULL
        /\ user.email = lastEvent.arg
        /\ user.role = (IF ContainsAdminAnyCase(lastEvent.arg) THEN "ADMIN" ELSE "USER")
        /\ page = "dashboard"

C10_Witness ==
    /\ lastEvent.op = "login"
    /\ lastEvent.arg = <<"b", "o", "b", "@", "A", "D", "M", "I", "N">>
    /\ user.role = "ADMIN"
    /\ page = "dashboard"

-----------------------------------------------------------------------------
(* Properties of the question repository (checked under SpecAdmin)         *)

\* C5: a session holds the first count entries of the repository as it is
\* when the session starts.
C5_SessionFromRepository ==
    lastEvent.op = "start" => currentQuiz.questions = slice(questions, 0, lastEvent.arg)

\* the text does not parse, or parses to a value that is no array
ImportRejected(jsonString) ==
    \/ ~JSONparse(jsonString).ok
    \/ ~isArray(JSONparse(jsonString).value)

\* C7: an import whose text does not parse, or parses to a value that is
\* no array, leaves the repository as it was and emits one notification,
\* an error.
C7_BadImportChangesNothing ==
    [][ (lastEvent'.op = "import" /\ ImportRejected(lastEvent'.arg)) =>
            /\ questions' = questions
            /\ Len(toasts') = 1
            /\ toasts'[1].kind = "error"
      ]_vars

C7_Witness ==
    /\ lastEvent.op = "import"
    /\ lastEvent.arg = << "{}" >>
    /\ questions = initialQuestions
    /\ toasts = << [kind |-> "error", msg |-> "Invalid JSON format. Please check the file."] >>

\* C8: an import whose text parses to an array of n items appends those
\* items in the order of the text and emits one success notification that
\* reports n; "[]" adds nothing and reports 0.
C8_ImportAppends ==
    [][ (lastEvent'.op = "import" /\ ~ImportRejected(lastEvent'.arg)) =>
            LET items == JSONparse(lastEvent'.arg).value.items
                n == Len(items)
            IN /\ Len(questions') = Len(questions) + n
               /\ \A i \in 1..Len(questions) : questions'[i] = questions[i]
               /\ \A j \in 1..n : questions'[Len(questions) + j] = items[j]
               /\ Len(toasts') = 1
               /\ toasts'[1].kind = "success"
               /\ toasts'[1].count = n
               /\ (lastEvent'.arg = << "[", "]" >>) =>
                      (questions' = questions /\ toasts'[1].count = 0)
      ]_vars

C8_Witness ==
    /\ lastEvent.op = "import"
    /\ lastEvent.arg = << "[", "{\"id\":1,\"topic\":\"Optics\"}", ",", "{\"topic\":\"Optics\"}", "]" >>
    /\ Len(questions) = 4
    /\ questions[3] = [id |-> 1, topic |-> "Optics"]
    /\ questions[4] = [topic |-> "Optics"]
    /\ toasts[1].kind = "success"
    /\ toasts[1].count = 2

\* C9: every question of the repository carries an identifier and no two
\* questions share one.
C9_UniqueIds ==
    /\ \A i \in DOMAIN questions : IdOf(questions[i]) # << >>
    /\ \A i, j \in DOMAIN questions : i # j => IdOf(questions[i]) # IdOf(questions[j])

-----------------------------------------------------------------------------
(* Properties of the dashboard (checked under SpecAccuracy)                *)

\* round(100 * correct / attempted) in exact arithmetic, a tie going up
ExactRoundedPercent(correct, attempted) == (200 * correct + attempted) \div (2 * attempted)

-----------------------------------------------------------------------------
(* Properties of the view router (checked under SpecRouter)                *)

\* C12: when the quiz view is made the active view while there is no
\* session, the host shows quiz-setup instead, emits no notification and
\* creates no session.
C12_NoSessionRedirectsToSetup ==
    [][ (lastEvent'.op = "setPage" /\ lastEvent'.arg = "taking-quiz" /\ currentQuiz = NULL) =>
            /\ page' = "quiz-setup"
            /\ currentQuiz' = NULL
            /\ toasts' = << >>
            /\ ~crashed'
      ]_vars

C12_Witness ==
    /\ lastEvent = [op |-> "setPage", arg |-> "taking-quiz"]
    /\ currentQuiz = NULL
    /\ page = "quiz-setup"

-----------------------------------------------------------------------------
(* Further properties of the quiz session (checked under Spec)             *)

\* C13: an advance issued while feedback shows for question i with
\* i + 1 < length raises the index by exactly 1, clears the selection and
\* the feedback flag and leaves the question list, the mode and the start
\* time as they are; within a session the index never decreases.
C13_AdvanceToNextQuestion ==
    [][ /\ (/\ lastEvent'.op = "advance"
            /\ showFeedback
            /\ currentQuiz.currentIndex + 1 < Len(currentQuiz.questions)) =>
              /\ currentQuiz'.currentIndex = currentQuiz.currentIndex + 1
              /\ currentQuiz'.questions = currentQuiz.questions
              /\ currentQuiz'.mode = currentQuiz.mode
              /\ currentQuiz'.startTime = currentQuiz.startTime
              /\ selectedOption' = NoSelection
              /\ showFeedback' = FALSE
              /\ page' = "taking-quiz"
              /\ confettiFired' = confettiFired
        /\ (currentQuiz # NULL /\ lastEvent'.op # "start") =>
              /\ currentQuiz' # NULL
              /\ currentQuiz'.currentIndex >= currentQuiz.currentIndex
              /\ currentQuiz'.questions = currentQuiz.questions
      ]_vars

C13_Witness ==
    /\ lastEvent.op = "advance"
    /\ page = "taking-quiz"
    /\ currentQuiz.currentIndex = 1
    /\ Len(currentQuiz.questions) = 3
    /\ currentQuiz.mode = "exam"
    /\ selectedOption = NoSelection
    /\ ~showFeedback

\* C14: a select issued while no feedback shows sets the feedback flag,
\* records the option, leaves the index as it is and emits exactly one
\* notification: a success if the option is the question's
\* correctAnswerIndex, an error otherwise.
C14_SelectShowsFeedback ==
    [][ (lastEvent'.op = "select" /\ ~showFeedback) =>
            /\ showFeedback' = TRUE
            /\ selectedOption' = lastEvent'.arg
            /\ currentQuiz' = currentQuiz
            /\ page' = page
            /\ Len(toasts') = 1
            /\ toasts'[1].kind =
                  IF lastEvent'.arg = currentQuestion.correctAnswerIndex
                  THEN "success" ELSE "error"
      ]_vars

C14_Witness ==
    /\ lastEvent = [op |-> "select", arg |-> 2]
    /\ page = "taking-quiz"
    /\ showFeedback
    /\ selectedOption = 2
    /\ currentQuiz.currentIndex = 1
    /\ toasts = << [kind |-> "error", msg |-> "Incorrect!"] >>

-----------------------------------------------------------------------------
(* Access to the admin views (checked under SpecUI)                        *)

\* C15: whenever the active view is one of the admin views, a user is
\* logged in and has role ADMIN; a login always lands on the dashboard, so
\* a non-admin who logs in after an admin never finds an admin view active.
C15_AdminViewsOnlyForAdmin ==
    /\ page \in {"admin-questions", "admin-motivation", "admin-users"} =>
          (user # NULL /\ user.role = "ADMIN")
    /\ (lastEvent.op = "login" /\ ~crashed) => page = "dashboard"

C15_Witness ==
    /\ page = "admin-users"
    /\ user # NULL
    /\ user.role = "ADMIN"
    /\ allUsers[2].subscriptionStatus = "EXPIRED"
    /\ Len(questions) # Len(initialQuestions)
    /\ lastEvent.op = "subscription"

====
